---- MODULE Spec2Model ----
(***************************************************************************)
(* PipesTestStack (infra/lib/stack.ts): an SNS topic whose messages are    *)
(* forwarded raw to an SQS queue, an EventBridge pipe that polls the queue *)
(* in batches and starts an express Step Functions execution per batch,    *)
(* and the workflow (Pass "SelectBodyFromInput", then Map                  *)
(* "MapInputToDynamoDbPutItem" over the task "DynamoPutItem") that writes  *)
(* one item per batch element into the DynamoDB table.                     *)
(*                                                                         *)
(* The stack is declarative; each resource is modelled by what the         *)
(* declared configuration makes the managed service do.  Time is not       *)
(* modelled: the queue's retention period and visibility timeout and the   *)
(* state machine's timeout never expire on a message of a behaviour.       *)
(* Input events have the shape the README documents.                       *)
(***************************************************************************)
EXTENDS Integers, Sequences, FiniteSets, Bags, TLC

(***************************************************************************)
(* Bounds of the model.                                                    *)
(***************************************************************************)
\* messages published to the topic in one behaviour of Spec
MaxPublish == 2
\* messages published in one behaviour of BatchSpec (more than one full batch)
MaxBatchPublish == 11
\* workflow executions the pipe has running at the same time
MaxExec == 2
MaxBatchExec == 1
\* deliveries the queue repeats (at-least-once delivery)
MaxRedeliver == 1
MaxBatchRedeliver == 0

(***************************************************************************)
(* Input events (README.md, "A hypothetical input event to the SNS topic").*)
(* The two measurements are strings; a string that is read digit by digit  *)
(* is a sequence of one-character strings.                                 *)
(***************************************************************************)
Cities == {"Tampere", "Oulu"}

Dates == {"2023-10-15", "2023-10-16"}

InspectTimes == {"2023-10-15T17:00:58+03:00", "2023-10-15T18:00:58+03:00"}

\* numeric strings with the number each denotes, as the fraction num / den
Numerals ==
    { [str |-> <<"0", ".", "0">>,      num |-> 0,  den |-> 1],
      [str |-> <<"5", ".", "1">>,      num |-> 51, den |-> 10],
      [str |-> <<"5", "8">>,           num |-> 58, den |-> 1],
      [str |-> <<"-", "3">>,           num |-> -3, den |-> 1],
      [str |-> <<"0", "5", "8">>,      num |-> 58, den |-> 1],
      [str |-> <<"5", ".", "1", "0">>, num |-> 51, den |-> 10] }

NumericStrings == {n.str : n \in Numerals}

\* every input event of the documented shape
InputEvents ==
    [city : Cities, date : Dates, inspectTime : InspectTimes,
     tempCelcius : NumericStrings, humidityPercent : NumericStrings]

\* the events published in Spec: two cities, and two temperatures reported
\* for the same city, date and inspectTime
Messages ==
    [city : Cities, date : {"2023-10-15"},
     inspectTime : {"2023-10-15T17:00:58+03:00"},
     tempCelcius : {<<"5", ".", "1">>, <<"-", "3">>},
     humidityPercent : {<<"5", "8">>}]

\* the one event published in BatchSpec
BatchMessages ==
    [city : {"Tampere"}, date : {"2023-10-15"},
     inspectTime : {"2023-10-15T17:00:58+03:00"},
     tempCelcius : {<<"5", ".", "1">>},
     humidityPercent : {<<"5", "8">>}]

(***************************************************************************)
(* State.                                                                  *)
(***************************************************************************)
VARIABLES
    snsTopic,      \* messages the topic has accepted and not yet delivered
    queue,         \* visible messages of the queue: entry -> number of copies
    stateMachine,  \* the running executions: execution -> number of them
    tbl,           \* the items of the table
    published,     \* history: message -> times published
    forwarded,     \* history: message -> times delivered to the queue
    started,       \* history: message -> times first handed to an execution
    stored,        \* history: message -> times written from a first delivery
    redelivered,   \* history: number of repeated deliveries
    authz,         \* IamSpec: an API request under the pipe's role
    sample         \* ItemSpec: one input event and the item built from it

vars == <<snsTopic, queue, stateMachine, tbl, published, forwarded, started,
          stored, redelivered, authz, sample>>

pipelineVars == <<snsTopic, queue, stateMachine, tbl, published, forwarded,
                  started, stored, redelivered>>

\* a queue entry: the message body, and whether this copy is a repeated
\* delivery of a message already handed to an execution
Entries == [body : Messages, dup : BOOLEAN]

Inc(f, x) == [f EXCEPT ![x] = @ + 1]

Dec(f, x) == [f EXCEPT ![x] = @ - 1]

RECURSIVE SumOver(_, _)
SumOver(f, S) ==
    IF S = {} THEN 0
    ELSE LET x == CHOOSE y \in S : TRUE IN f[x] + SumOver(f, S \ {x})

Total(f) == SumOver(f, DOMAIN f)

(***************************************************************************)
(* DynamoPutItem: the item built from one element of the Map's input.      *)
(***************************************************************************)
DigitValue(c) ==
    CASE c = "0" -> 0 [] c = "1" -> 1 [] c = "2" -> 2 [] c = "3" -> 3
      [] c = "4" -> 4 [] c = "5" -> 5 [] c = "6" -> 6 [] c = "7" -> 7
      [] c = "8" -> 8 [] c = "9" -> 9

RECURSIVE DigitsValue(_)
DigitsValue(s) ==
    IF s = <<>> THEN 0
    ELSE 10 * DigitsValue(SubSeq(s, 1, Len(s) - 1)) + DigitValue(s[Len(s)])

\* a decimal number coef * 10^(-exp) without trailing zeroes in the fraction
RECURSIVE Normalize(_, _)
Normalize(coef, exp) ==
    IF exp > 0 /\ coef % 10 = 0 THEN Normalize(coef \div 10, exp - 1)
    ELSE [coef |-> coef, exp |-> exp]

\* The number DynamoDB stores for the string given as an N value: an
\* optional sign, digits, and an optional fraction; leading and trailing
\* zeroes are trimmed.
ParseNumber(s) ==
    LET neg    == s # <<>> /\ s[1] = "-"
        body   == IF neg THEN Tail(s) ELSE s
        dots   == {i \in 1 .. Len(body) : body[i] = "."}
        dot    == IF dots = {} THEN Len(body) + 1 ELSE CHOOSE i \in dots : TRUE
        whole  == SubSeq(body, 1, dot - 1)
        frac   == SubSeq(body, dot + 1, Len(body))
        digits == DigitsValue(whole \o frac)
    IN  Normalize(IF neg THEN 0 - digits ELSE digits, Len(frac))

\* States.Format('WDATA#CITY#{}#{}', $.city, $.date)
StatesFormat(city, date) == "WDATA#CITY#" \o city \o "#" \o date

\* DynamoAttributeValue.fromString: an attribute of type S
fromString(value) == [S |-> value]

\* the measurement kept as the string it arrives as
fromNumberAsString(value) == [S |-> value]

\* DynamoAttributeValue.fromNumber over a JSON path: the string at the path
\* is handed to DynamoDB as an N value
fromNumber(value) == [N |-> ParseNumber(value)]

\* an item with fixed keys, whatever the input
itemFixed(input) ==
    [pk   |-> fromString("test"),
     sk   |-> fromString("test"),
     type |-> fromString("Test")]

\* the item of the DynamoPutItem task for the input element `input`
item(input) ==
    [pk              |-> fromString(StatesFormat(input.city, input.date)),
     sk              |-> fromString(input.inspectTime),
     type            |-> fromString("WeatherData"),
     inspectTime     |-> fromString(input.inspectTime),
     tempCelcius     |-> fromNumber(input.tempCelcius),
     humidityPercent |-> fromNumber(input.humidityPercent)]

\* the table's key schema: partition key pk and sort key sk
KeyOf(it) == <<it.pk, it.sk>>

\* a write that adds the measurements to the stored item of the same key
PutItemAdd(T, it) ==
    LET old == {r \in T : KeyOf(r) = KeyOf(it)} IN
    IF old = {} THEN T \cup {it}
    ELSE (T \ old) \cup
         { [r EXCEPT !.tempCelcius.N.coef = @ + it.tempCelcius.N.coef,
                     !.humidityPercent.N.coef = @ + it.humidityPercent.N.coef] :
           r \in old }

\* a write that keeps the stored item of the same key next to the new one
PutItemAppend(T, it) == T \cup {it}

\* dynamodb:PutItem without a condition: the item replaces the item of the
\* same key, if there is one
PutItem(T, it) == {r \in T : KeyOf(r) # KeyOf(it)} \cup {it}

(***************************************************************************)
(* The pipe's role.                                                        *)
(***************************************************************************)
QueueArn == "arn:aws:sqs:pipes-test-queue"

StateMachineArn == "arn:aws:states:stateMachine:pipes-test-state-machine"

\* a pattern of a policy statement: a literal, or a prefix followed by '*'
Literal(s) == [prefix |-> s, wild |-> FALSE]

Wildcard(s) == [prefix |-> s, wild |-> TRUE]

\* the role with the queue statement granted on every resource
pipeRoleAnyQueue ==
    { [actions   |-> {Literal("sqs:ReceiveMessage"), Literal("sqs:DeleteMessage"),
                      Literal("sqs:GetQueueAttributes")},
       resources |-> {Wildcard("")}],
      [actions   |-> {Literal("states:ListStateMachines")},
       resources |-> {Wildcard("")}],
      [actions   |-> {Wildcard("states:Start"), Wildcard("states:Stop")},
       resources |-> {Literal(StateMachineArn)}] }

\* the three statements added to PipesTestRole
pipeRole ==
    { [actions   |-> {Literal("sqs:ReceiveMessage"), Literal("sqs:DeleteMessage"),
                      Literal("sqs:GetQueueAttributes")},
       resources |-> {Literal(QueueArn)}],
      [actions   |-> {Literal("states:ListStateMachines")},
       resources |-> {Wildcard("")}],
      [actions   |-> {Wildcard("states:Start"), Wildcard("states:Stop")},
       resources |-> {Literal(StateMachineArn)}] }

\* the API actions and resources a request is drawn from
ApiActions ==
    {"sqs:ReceiveMessage", "sqs:DeleteMessage", "sqs:GetQueueAttributes",
     "sqs:SendMessage", "sqs:PurgeQueue", "sqs:DeleteQueue",
     "states:StartExecution", "states:StartSyncExecution",
     "states:StopExecution", "states:ListStateMachines",
     "states:ListExecutions", "states:DeleteStateMachine",
     "states:DescribeStateMachine", "dynamodb:PutItem", "dynamodb:DeleteItem"}

ApiResources ==
    {QueueArn, StateMachineArn,
     "arn:aws:sqs:other-queue",
     "arn:aws:states:stateMachine:other-state-machine",
     "arn:aws:states:execution:pipes-test-state-machine:run",
     "arn:aws:dynamodb:table/pipes-test-table",
     "arn:aws:sns:pipes-test-sns"}

\* what a '*' of a pattern can stand for
Suffixes ==
    {"", "Execution", "SyncExecution"} \cup ApiResources

\* IAM's match of a pattern against a name
Matches(pattern, name) ==
    IF pattern.wild
    THEN \E s \in Suffixes : pattern.prefix \o s = name
    ELSE pattern.prefix = name

\* the role's policy allows `action` on `resource`
Allows(action, resource) ==
    \E stmt \in pipeRole :
        /\ \E a \in stmt.actions : Matches(a, action)
        /\ \E r \in stmt.resources : Matches(r, resource)

(***************************************************************************)
(* The pipe and the workflow.                                              *)
(***************************************************************************)
\* a topic whose subscription delivers nothing to the queue
addSubscriptionNone(q, m) == q

\* snsTopic.addSubscription(new SqsSubscription(queue, rawMessageDelivery)):
\* the published message itself becomes the body of a new queue message
addSubscription(q, m) == Inc(q, [body |-> m, dup |-> FALSE])

\* sqsQueueParameters.batchSize
batchSize == 10

\* a Map state that runs two iterations at a time
maxConcurrencyTwo == 1 + 1

\* MapInputToDynamoDbPutItem maxConcurrency
maxConcurrency == 1

\* targetParameters.inputTemplate '{ "body": <$.body> }', applied to each
\* message of the batch; the body is the JSON the message carries
inputTemplate(entry) == [body |-> entry.body]

\* a path that selects the body of the first element only
inputPathFirst(input) == <<input[1].body>>

\* inputPath '$..body' of SelectBodyFromInput: the body members of the
\* input, in document order
inputPath(input) == [i \in 1 .. Len(input) |-> input[i].body]

\* the sequences of at most n of the visible messages of q
RECURSIVE Batches(_, _)
Batches(q, n) ==
    IF n = 0 THEN {<<>>}
    ELSE {<<>>} \cup
         UNION { { <<x>> \o b : b \in Batches(Dec(q, x), n - 1) } :
                 x \in {y \in DOMAIN q : q[y] > 0} }

RECURSIVE Receive(_, _)
Receive(q, batch) ==
    IF batch = <<>> THEN q ELSE Receive(Dec(q, Head(batch)), Tail(batch))

\* the first deliveries among the batch: message -> copies
FirstDeliveries(h, batch) ==
    [m \in DOMAIN h |->
        h[m] + Cardinality({i \in 1 .. Len(batch) :
                               batch[i].body = m /\ ~batch[i].dup})]

\* an execution that has just been started with `batch`
Started(batch) ==
    [pc |-> "SelectBodyFromInput", batch |-> batch,
     input |-> [i \in 1 .. Len(batch) |-> inputTemplate(batch[i])],
     next |-> 1, running |-> {}, writes |-> <<>>, order |-> <<>>]

\* the running executions, as a set
Executions == BagToSet(stateMachine)

\* the execution x has become y
Step(x, y) == (stateMachine (-) SetToBag({x})) (+) SetToBag({y})

NoRequest == [action |-> "", resource |-> "", decision |-> "None"]

NoSample == [phase |-> "None"]

Init ==
    /\ snsTopic = [m \in Messages |-> 0]
    /\ queue = [e \in Entries |-> 0]
    /\ stateMachine = EmptyBag
    /\ tbl = {}
    /\ published = [m \in Messages |-> 0]
    /\ forwarded = [m \in Messages |-> 0]
    /\ started = [m \in Messages |-> 0]
    /\ stored = [m \in Messages |-> 0]
    /\ redelivered = 0
    /\ authz = NoRequest
    /\ sample = NoSample

\* sns publish: the topic accepts a message
Publish(m, max) ==
    /\ Total(published) < max
    /\ published' = Inc(published, m)
    /\ snsTopic' = Inc(snsTopic, m)
    /\ UNCHANGED <<queue, stateMachine, tbl, forwarded, started, stored,
                   redelivered, authz, sample>>

\* the topic delivers a message to its subscription
Forward(m) ==
    /\ snsTopic[m] > 0
    /\ snsTopic' = Dec(snsTopic, m)
    /\ queue' = addSubscription(queue, m)
    /\ forwarded' = Inc(forwarded, m)
    /\ UNCHANGED <<stateMachine, tbl, published, started, stored,
                   redelivered, authz, sample>>

\* the queue after the messages of `batch` at the indexes `again` have been
\* made visible once more
RECURSIVE Deliver(_, _, _)
Deliver(q, batch, again) ==
    IF again = {} THEN q
    ELSE LET i == CHOOSE j \in again : TRUE
         IN  Deliver(Inc(q, [body |-> batch[i].body, dup |-> TRUE]),
                     batch, again \ {i})

\* The pipe receives a batch from its source and starts an execution of its
\* target with the transformed batch as input.  The queue is a standard
\* queue: a received message may stay visible and be delivered again
\* (`again`).
PipePoll(batch, again, maxExec, maxRedeliver) ==
    /\ BagCardinality(stateMachine) < maxExec
    /\ batch # <<>>
    /\ redelivered + Cardinality(again) <= maxRedeliver
    /\ Allows("sqs:ReceiveMessage", QueueArn)
    /\ Allows("states:StartSyncExecution", StateMachineArn)
    /\ queue' = Deliver(Receive(queue, batch), batch, again)
    /\ redelivered' = redelivered + Cardinality(again)
    /\ stateMachine' = stateMachine (+) SetToBag({Started(batch)})
    /\ started' = FirstDeliveries(started, batch)
    /\ UNCHANGED <<snsTopic, tbl, published, forwarded, stored, authz, sample>>

\* Pass state SelectBodyFromInput, then on to the Map state
SelectBodyFromInput(x) ==
    /\ x.pc = "SelectBodyFromInput"
    /\ stateMachine' =
          Step(x, [x EXCEPT !.pc = "MapInputToDynamoDbPutItem",
                            !.input = inputPath(@)])
    /\ UNCHANGED <<snsTopic, queue, tbl, published, forwarded, started,
                   stored, redelivered, authz, sample>>

\* Map state, itemsPath '$': the next iteration starts while fewer than
\* maxConcurrency iterations are running
MapStartIteration(x) ==
    /\ x.pc = "MapInputToDynamoDbPutItem"
    /\ x.next <= Len(x.input)
    /\ Cardinality(x.running) < maxConcurrency
    /\ stateMachine' = Step(x, [x EXCEPT !.running = @ \cup {x.next},
                                         !.next = @ + 1])
    /\ UNCHANGED <<snsTopic, queue, tbl, published, forwarded, started,
                   stored, redelivered, authz, sample>>

\* the DynamoPutItem task of iteration i
DynamoPutItem(x, i) ==
    /\ x.pc = "MapInputToDynamoDbPutItem"
    /\ i \in x.running
    /\ tbl' = PutItem(tbl, item(x.input[i]))
    /\ stateMachine' = Step(x, [x EXCEPT !.running = @ \ {i},
                                         !.writes = Append(@, item(x.input[i])),
                                         !.order = Append(@, i)])
    /\ stored' = IF i <= Len(x.batch) /\ ~x.batch[i].dup
                 THEN Inc(stored, x.batch[i].body) ELSE stored
    /\ UNCHANGED <<snsTopic, queue, published, forwarded, started,
                   redelivered, authz, sample>>

\* every iteration of the Map state has ended
Finished(x) ==
    /\ x.pc = "MapInputToDynamoDbPutItem"
    /\ x.next > Len(x.input)
    /\ x.running = {}

\* the execution succeeds and the pipe deletes its batch from the queue
Complete(x) ==
    /\ Finished(x)
    /\ Allows("sqs:DeleteMessage", QueueArn)
    /\ stateMachine' = stateMachine (-) SetToBag({x})
    /\ UNCHANGED <<snsTopic, queue, tbl, published, forwarded, started,
                   stored, redelivered, authz, sample>>

Pipeline(maxExec, maxRedeliver) ==
    \/ \E m \in Messages : Forward(m)
    \/ \E batch \in Batches(queue, batchSize) :
          \E again \in SUBSET (1 .. Len(batch)) :
             PipePoll(batch, again, maxExec, maxRedeliver)
    \/ \E x \in Executions : SelectBodyFromInput(x)
    \/ \E x \in Executions : MapStartIteration(x)
    \/ \E x \in Executions : \E i \in x.running : DynamoPutItem(x, i)
    \/ \E x \in Executions : Complete(x)

Next ==
    \/ \E m \in Messages : Publish(m, MaxPublish)
    \/ Pipeline(MaxExec, MaxRedeliver)

Spec == Init /\ [][Next]_vars

\* more messages than one batch holds, all alike
BatchNext ==
    \/ \E m \in BatchMessages : Publish(m, MaxBatchPublish)
    \/ Pipeline(MaxBatchExec, MaxBatchRedeliver)

BatchSpec == Init /\ [][BatchNext]_vars

\* the events flow on whenever they can: the topic delivers to its
\* subscription, the pipe (desiredState RUNNING) polls, and an execution
\* takes its next step
Fairness ==
    /\ WF_vars(\E m \in Messages : Forward(m))
    /\ WF_vars(\E batch \in Batches(queue, batchSize) :
                  \E again \in SUBSET (1 .. Len(batch)) :
                     PipePoll(batch, again, MaxExec, MaxRedeliver))
    /\ WF_vars(\E x \in Executions : SelectBodyFromInput(x))
    /\ WF_vars(\E x \in Executions : MapStartIteration(x))
    /\ WF_vars(\E x \in Executions : \E i \in x.running : DynamoPutItem(x, i))
    /\ WF_vars(\E x \in Executions : Complete(x))

FairSpec == Spec /\ Fairness

(***************************************************************************)
(* The role's policy, evaluated on one request.                            *)
(***************************************************************************)
IamInit ==
    /\ snsTopic = [m \in Messages |-> 0]
    /\ queue = [e \in Entries |-> 0]
    /\ stateMachine = EmptyBag
    /\ tbl = {}
    /\ published = [m \in Messages |-> 0]
    /\ forwarded = [m \in Messages |-> 0]
    /\ started = [m \in Messages |-> 0]
    /\ stored = [m \in Messages |-> 0]
    /\ redelivered = 0
    /\ authz \in [action : ApiActions, resource : ApiResources,
                  decision : {"None"}]
    /\ sample = NoSample

\* IAM decides the request under the role's policy
Authorize ==
    /\ authz.decision = "None"
    /\ authz' = [authz EXCEPT !.decision =
                    IF Allows(authz.action, authz.resource)
                    THEN "Allow" ELSE "Deny"]
    /\ UNCHANGED <<pipelineVars, sample>>

IamNext == Authorize

IamSpec == IamInit /\ [][IamNext]_vars

(***************************************************************************)
(* The DynamoPutItem task on one input event.                              *)
(***************************************************************************)
ItemInit ==
    /\ snsTopic = [m \in Messages |-> 0]
    /\ queue = [e \in Entries |-> 0]
    /\ stateMachine = EmptyBag
    /\ tbl = {}
    /\ published = [m \in Messages |-> 0]
    /\ forwarded = [m \in Messages |-> 0]
    /\ started = [m \in Messages |-> 0]
    /\ stored = [m \in Messages |-> 0]
    /\ redelivered = 0
    /\ authz = NoRequest
    /\ sample \in [phase : {"Input"}, input : InputEvents]

\* the task writes the item built from the event
PutSample ==
    /\ sample.phase = "Input"
    /\ tbl' = PutItem(tbl, item(sample.input))
    /\ sample' = [sample EXCEPT !.phase = "Stored"]
    /\ UNCHANGED <<snsTopic, queue, stateMachine, published, forwarded,
                   started, stored, redelivered, authz>>

ItemNext == PutSample

ItemSpec == ItemInit /\ [][ItemNext]_vars

(***************************************************************************)
(* The claims.                                                             *)
(***************************************************************************)
\* nothing is left to process: the topic and the queue are empty and no
\* execution is running
Quiescent ==
    /\ \A m \in Messages : snsTopic[m] = 0
    /\ \A e \in Entries : queue[e] = 0
    /\ stateMachine = EmptyBag

RECURSIVE Pow10(_)
Pow10(n) == IF n = 0 THEN 1 ELSE 10 * Pow10(n - 1)

\* the stored number is the number the numeric string str denotes
Denotes(number, str) ==
    \E n \in Numerals :
        /\ n.str = str
        /\ number.coef * n.den = n.num * Pow10(number.exp)

\* the attribute is of type N and its value is the number the numeric
\* string str denotes
StoresNumber(attr, str) ==
    /\ DOMAIN attr = {"N"}
    /\ Denotes(attr.N, str)

\* the table holds a record with the key derived from message m
HasRecordOf(m) ==
    \E r \in tbl :
        /\ r.pk = [S |-> "WDATA#CITY#" \o m.city \o "#" \o m.date]
        /\ r.sk = [S |-> m.inspectTime]

\* C1: under fair scheduling every published message is forwarded to the
\* queue, every forwarded message is handed to a workflow execution, and
\* every message handed to an execution gets its record stored, in that
\* order.  No message is counted at a stage before it has passed the stage
\* before, so the totals of two stages agree only when the stages agree on
\* every message: the n-th message published is in time the n-th forwarded,
\* started and stored, and a stored message has its record in the table.
C1_PublishedLeadsToStored ==
    /\ [](\A m \in Messages :
            /\ stored[m] <= started[m]
            /\ started[m] <= forwarded[m]
            /\ forwarded[m] <= published[m]
            /\ stored[m] >= 1 => HasRecordOf(m))
    /\ \A n \in 1 .. MaxPublish :
          /\ (Total(published) >= n) ~> (Total(forwarded) >= n)
          /\ (Total(forwarded) >= n) ~> (Total(started) >= n)
          /\ (Total(started) >= n) ~> (Total(stored) >= n)

\* C1 witness: a message has passed every stage and its record is stored
C1_Witness ==
    \E m \in Messages :
        /\ published[m] >= 1 /\ forwarded[m] >= 1
        /\ started[m] >= 1 /\ stored[m] >= 1
        /\ HasRecordOf(m)
        /\ Quiescent

\* C2: the record written for an input event has pk = 'WDATA#CITY#' + city
\* + '#' + date, sk = inspectTime, type = 'WeatherData', inspectTime = the
\* event's inspectTime and the event's two measurements, and is the only
\* record written: it is determined by that one event.
C2_RecordOfMessage ==
    sample.phase = "Stored" =>
        /\ Cardinality(tbl) = 1
        /\ \A r \in tbl :
              LET m == sample.input IN
              /\ {"pk", "sk", "type", "inspectTime", "tempCelcius",
                  "humidityPercent"} \subseteq DOMAIN r
              /\ r.pk = [S |-> "WDATA#CITY#" \o m.city \o "#" \o m.date]
              /\ r.sk = [S |-> m.inspectTime]
              /\ r.type = [S |-> "WeatherData"]
              /\ r.inspectTime = [S |-> m.inspectTime]
              /\ \A a \in DOMAIN r.tempCelcius :
                    Denotes(r.tempCelcius[a], m.tempCelcius)
              /\ \A a \in DOMAIN r.humidityPercent :
                    Denotes(r.humidityPercent[a], m.humidityPercent)

\* C2 witness: the README's sample event has been written
C2_Witness ==
    /\ sample.phase = "Stored"
    /\ sample.input.city = "Tampere"
    /\ sample.input.date = "2023-10-15"
    /\ sample.input.tempCelcius = <<"5", ".", "1">>
    /\ sample.input.humidityPercent = <<"5", "8">>
    /\ \E r \in tbl : r.pk = [S |-> "WDATA#CITY#Tampere#2023-10-15"]

\* the keys (pk, sk) of the messages published so far
PublishedKeys ==
    { <<"WDATA#CITY#" \o m.city \o "#" \o m.date, m.inspectTime>> :
      m \in {x \in Messages : published[x] > 0} }

\* a record is added to the table
RecordAdded == \E r \in tbl' : r \notin tbl

\* C3 as stated: once every published message is processed, the table holds
\* as many records as messages were received.
C3_RecordPerMessage ==
    Quiescent => Cardinality(tbl) = Total(published)

\* C3, amended: once every published message is processed, the table holds
\* one record per distinct key (pk, sk) among the messages received, hence
\* at most one per message; and only the workflow's put-item step adds a
\* record.
C3_RecordPerKey ==
    /\ [](Quiescent =>
            /\ Cardinality(tbl) = Cardinality(PublishedKeys)
            /\ Cardinality(tbl) <= Total(published))
    /\ [][RecordAdded =>
            \E x \in Executions : \E i \in x.running : DynamoPutItem(x, i)]_vars

\* C3 witness: two messages of the same key are processed and one record
\* is in the table
C3_Witness ==
    /\ Quiescent
    /\ Total(published) = 2
    /\ Cardinality(PublishedKeys) = 1
    /\ Cardinality(tbl) = 1

\* C4 as stated: a record in the table stays in the table with all its
\* attribute values, whatever step is taken.
C4_RecordNeverChanges ==
    [][\A r \in tbl : r \in tbl']_vars

\* C5 as stated: every record in the table has string keys pk and sk, a
\* type tag, the two measurements, and an expiry marker in the attribute
\* 'ttl'.
C5_FullShape ==
    \A r \in tbl :
        /\ {"pk", "sk", "type", "tempCelcius", "humidityPercent"}
              \subseteq DOMAIN r
        /\ DOMAIN r.pk = {"S"}
        /\ DOMAIN r.sk = {"S"}
        /\ "ttl" \in DOMAIN r

StartActions == {"states:StartExecution", "states:StartSyncExecution"}

StopActions == {"states:StopExecution"}

QueueActions ==
    {"sqs:ReceiveMessage", "sqs:DeleteMessage", "sqs:GetQueueAttributes"}

\* C6 as stated: the role allows exactly receive, delete and get-attributes
\* on the queue and start, stop and list on the state machine.
C6_ExactlyOnQueueAndStateMachine ==
    authz.decision # "None" =>
        (authz.decision = "Allow" <=>
            \/ authz.action \in QueueActions /\ authz.resource = QueueArn
            \/ /\ authz.action \in StartActions \cup StopActions
                     \cup {"states:ListStateMachines"}
               /\ authz.resource = StateMachineArn)

\* C6, amended: the role allows exactly receive, delete and get-attributes
\* on the queue, start and stop on the state machine, and
\* list-state-machines on every resource.
C6_ListOnEveryResource ==
    authz.decision # "None" =>
        (authz.decision = "Allow" <=>
            \/ authz.action \in QueueActions /\ authz.resource = QueueArn
            \/ /\ authz.action \in StartActions \cup StopActions
               /\ authz.resource = StateMachineArn
            \/ authz.action = "states:ListStateMachines")

\* C6 witness: list-state-machines is allowed on a resource that is neither
\* the queue nor the state machine
C6_Witness ==
    /\ authz.decision = "Allow"
    /\ authz.action = "states:ListStateMachines"
    /\ authz.resource \notin {QueueArn, StateMachineArn}

\* C7: the two measurements, numeric strings in the input event, are stored
\* as attributes of type N whose value is the number the string denotes.
C7_StoredAsNumbers ==
    sample.phase = "Stored" =>
        \A r \in tbl :
            /\ StoresNumber(r.tempCelcius, sample.input.tempCelcius)
            /\ StoresNumber(r.humidityPercent, sample.input.humidityPercent)

\* C7 witness: a negative and a zero-padded measurement have been stored
C7_Witness ==
    /\ sample.phase = "Stored"
    /\ sample.input.tempCelcius = <<"-", "3">>
    /\ sample.input.humidityPercent = <<"0", "5", "8">>
    /\ \E r \in tbl : r.tempCelcius = [N |-> [coef |-> -3, exp |-> 0]]
                      /\ r.humidityPercent = [N |-> [coef |-> 58, exp |-> 0]]

\* C8: an execution started with a batch of k messages writes the item of
\* the body of the i-th message as its i-th write, and has made exactly k
\* writes when it ends.
C8_OneWritePerBody ==
    \A x \in Executions :
        /\ Len(x.writes) <= Len(x.batch)
        /\ \A j \in 1 .. Len(x.writes) : x.writes[j] = item(x.batch[j].body)
        /\ Finished(x) => Len(x.writes) = Len(x.batch)

\* C8 witness: an execution has ended after a batch of two different bodies
C8_Witness ==
    \E x \in Executions :
        /\ Finished(x)
        /\ Len(x.batch) = 2
        /\ x.batch[1].body # x.batch[2].body
        /\ Len(x.writes) = 2

\* C9: in an execution at most one put-item write is in progress, the
\* writes are made in the order of the batch, and the batch holds at most
\* 10 messages.
C9_OneAtATimeInOrder ==
    \A x \in Executions :
        /\ Cardinality(x.running) <= 1
        /\ x.order = [j \in 1 .. Len(x.order) |-> j]
        /\ Len(x.batch) <= 10

\* C9 witness: a write of a full batch is in progress after earlier writes,
\* while a further message waits in the queue
C9_Witness ==
    \E x \in Executions :
        /\ Len(x.batch) = 10
        /\ Len(x.order) >= 2
        /\ x.running # {}
        /\ \E e \in Entries : queue[e] > 0

\* the tables that processing each message of h exactly once, in any order,
\* can leave
RECURSIVE TablesAfter(_, _)
TablesAfter(T, h) ==
    LET left == {m \in DOMAIN h : h[m] > 0} IN
    IF left = {} THEN {T}
    ELSE UNION { TablesAfter(PutItem(T, item(m)), Dec(h, m)) : m \in left }

====
